---- MODULE Spec2Model ----
(***************************************************************************)
(* Model of the pixnap document scanner: the WebView engine of             *)
(* src/utils/scannerHtml.ts (solve, computeHomography, invert3x3, warp,    *)
(* adaptiveThreshold, the enhancement modes, processImage, the message     *)
(* handler), the ImageProcessor bridge that drives it from React Native,   *)
(* the CornerSelector gestures and the steps of ScanScreen.                *)
(*                                                                         *)
(* JavaScript numbers are modelled as exact rationals <<n, d>> (d > 0, in  *)
(* lowest terms); every arithmetic step of the source is carried out on    *)
(* them in the order the source carries it out.                            *)
(***************************************************************************)
EXTENDS Integers, Sequences, FiniteSets, TLC

VARIABLES
    call,        \* the arguments of the engine function under test
    ret,         \* what that function returned ("pending" before it ran)
    inbox,       \* RN -> WebView messages posted and not yet delivered
    outbox,      \* WebView -> RN messages posted and not yet delivered
    jobs,        \* WebView: one record per delivered message (promise state)
    srcCanvas,   \* WebView: the global <canvas id="src">
    dstCanvas,   \* WebView: the global <canvas id="dst">
    pendingRef,  \* ImageProcessor: pendingRef.current (0 = null)
    promises,    \* ImageProcessor: the promises process() returned
    selector,    \* CornerSelector: layout, refs and the corners it is given
    screen       \* ScanScreen: its useState values and running handlers

vars == <<call, ret, inbox, outbox, jobs, srcCanvas, dstCanvas,
          pendingRef, promises, selector, screen>>

uiVars == <<selector, screen>>

engineVars == <<inbox, outbox, jobs, srcCanvas, dstCanvas,
                pendingRef, promises>>

-----------------------------------------------------------------------------
(* JavaScript numbers as exact rationals *)

NULL == <<>>

\* An array literal: the sequence s with every element computed once
Arr(s) == s \o <<>>

\* var x = e; rest: e is computed once and rest reads it as x
Var(e, rest(_)) == CHOOSE r \in {rest(x) : x \in {e}} : TRUE

Abs(i) == IF i < 0 THEN -i ELSE i
Sign(i) == IF i < 0 THEN -1 ELSE IF i > 0 THEN 1 ELSE 0

RECURSIVE Gcd(_, _)
Gcd(a, b) == IF b = 0 THEN a ELSE Gcd(b, a % b)

\* <<1, 0>> is Infinity, <<-1, 0>> is -Infinity and <<0, 0>> is NaN, which is
\* what a division by zero gives in JavaScript.
Norm(n, d) ==
    IF d = 0 THEN <<Sign(n), 0>>
    ELSE LET s == IF d < 0 THEN -1 ELSE 1
             g == Gcd(Abs(n), Abs(d))
         IN  <<(s * n) \div g, (s * d) \div g>>

R(i) == <<i, 1>>
NaN == <<0, 0>>
IsNaN(a) == a = NaN
IsFinite(a) == a[2] # 0
\* the common factor of two denominators, taken out before cross-multiplying
DenGcd(a, b) == IF a[2] = 0 /\ b[2] = 0 THEN 1 ELSE Gcd(Abs(a[2]), Abs(b[2]))
RAdd(a, b) ==
    LET g == DenGcd(a, b)
    IN  Norm(a[1] * (b[2] \div g) + b[1] * (a[2] \div g), (a[2] \div g) * b[2])
RSub(a, b) ==
    LET g == DenGcd(a, b)
    IN  Norm(a[1] * (b[2] \div g) - b[1] * (a[2] \div g), (a[2] \div g) * b[2])
RMul(a, b) == Norm(a[1] * b[1], a[2] * b[2])
RDiv(a, b) == Norm(a[1] * b[2], a[2] * b[1])
RNeg(a) == <<-a[1], a[2]>>
RAbs(a) == <<Abs(a[1]), a[2]>>
\* a < b and a <= b; every comparison with NaN is false
RLt(a, b) ==
    /\ ~IsNaN(a) /\ ~IsNaN(b)
    /\ a[1] * (b[2] \div DenGcd(a, b)) < b[1] * (a[2] \div DenGcd(a, b))
RLe(a, b) ==
    /\ ~IsNaN(a) /\ ~IsNaN(b)
    /\ a[1] * (b[2] \div DenGcd(a, b)) <= b[1] * (a[2] \div DenGcd(a, b))
\* Math.floor of a finite number
RFloor(a) == a[1] \div a[2]

\* n * 10^k < d, for n >= 0 and d > 0, without forming 10^k
RECURSIVE ScaledLt(_, _, _)
ScaledLt(n, d, k) ==
    IF k = 0 THEN n < d ELSE ScaledLt(n, (d + 9) \div 10, k - 1)

EpsExp == 10
\* Math.abs(v) < 1e-10
BelowEps(v) == IsFinite(v) /\ ScaledLt(Abs(v[1]), v[2], EpsExp)

-----------------------------------------------------------------------------
(* solve(A, b): Gaussian elimination with partial pivoting *)

RECURSIVE FindMaxRow(_, _, _, _, _)
FindMaxRow(M, n, col, row, maxRow) ==
    IF row > n THEN maxRow
    ELSE FindMaxRow(M, n, col, row + 1,
            IF RLt(RAbs(M[maxRow][col]), RAbs(M[row][col])) THEN row ELSE maxRow)

SwapRows(M, i, k) ==
    Arr([r \in DOMAIN M |-> IF r = i THEN M[k] ELSE IF r = k THEN M[i] ELSE M[r]])

\* the singularity test left out: elimination goes on with any pivot
PivotNeverTooSmall(v) == FALSE

\* if (Math.abs(M[col][col]) < 1e-10) return null
PivotTooSmall(v) == BelowEps(v)

EliminateBelow(M, n, col) ==
    Arr([row \in 1..n |->
        IF row <= col THEN M[row]
        ELSE LET f == RDiv(M[row][col], M[col][col])
             IN  Arr([j \in 1..(n + 1) |->
                        IF j < col THEN M[row][j]
                        ELSE RSub(M[row][j], RMul(f, M[col][j]))])])

RECURSIVE Forward(_, _, _)
Forward(M, n, col) ==
    IF col > n THEN M
    ELSE LET S == SwapRows(M, col, FindMaxRow(M, n, col, col + 1, col))
         IN  IF PivotTooSmall(S[col][col]) THEN NULL
             ELSE Forward(EliminateBelow(S, n, col), n, col + 1)

RECURSIVE RowDot(_, _, _, _, _)
\* x[i] = M[i][n]; for (j = i+1; j < n; j++) x[i] -= M[i][j] * x[j]
RowDot(M, x, i, j, acc) ==
    IF j > Len(M) THEN acc
    ELSE RowDot(M, x, i, j + 1, RSub(acc, RMul(M[i][j], x[j])))

RECURSIVE BackSubst(_, _, _)
BackSubst(M, i, x) ==
    IF i = 0 THEN x
    ELSE LET n == Len(M)
             xi == RDiv(RowDot(M, x, i, i + 1, M[i][n + 1]), M[i][i])
         IN  BackSubst(M, i - 1, [x EXCEPT ![i] = xi])

solve(A, b) ==
    LET n == Len(b)
        M0 == Arr([i \in 1..n |-> Append(A[i], b[i])])
        M == Forward(M0, n, 1)
    IN  IF M = NULL THEN NULL
        ELSE BackSubst(M, n, Arr([i \in 1..n |-> R(0)]))

-----------------------------------------------------------------------------
(* computeHomography(srcPts, dstPts) and invert3x3(m) *)

HomRows(s, d) ==
    LET sx == s[1]
        sy == s[2]
        dx == d[1]
        dy == d[2]
    IN  << <<sx, sy, R(1), R(0), R(0), R(0),
             RMul(RNeg(dx), sx), RMul(RNeg(dx), sy)>>,
           <<R(0), R(0), R(0), sx, sy, R(1),
             RMul(RNeg(dy), sx), RMul(RNeg(dy), sy)>> >>

computeHomography(srcPts, dstPts) ==
    LET A == Arr([k \in 1..8 |-> HomRows(srcPts[(k + 1) \div 2],
                                         dstPts[(k + 1) \div 2])[2 - (k % 2)]])
        b == Arr([k \in 1..8 |-> dstPts[(k + 1) \div 2][2 - (k % 2)]])
        h == solve(A, b)
    IN  IF h = NULL THEN NULL ELSE Append(h, R(1))

invert3x3(m) ==
    LET a == m[1]
        b == m[2]
        c == m[3]
        d == m[4]
        e == m[5]
        f == m[6]
        g == m[7]
        h == m[8]
        k == m[9]
        P(x, y) == RMul(x, y)
        det == RAdd(RSub(P(a, RSub(P(e, k), P(f, h))),
                         P(b, RSub(P(d, k), P(f, g)))),
                    P(c, RSub(P(d, h), P(e, g))))
        inv == RDiv(R(1), det)
    IN  IF BelowEps(det) THEN NULL
        ELSE << P(RSub(P(e, k), P(f, h)), inv), P(RSub(P(c, h), P(b, k)), inv),
                P(RSub(P(b, f), P(c, e)), inv),
                P(RSub(P(f, g), P(d, k)), inv), P(RSub(P(a, k), P(c, g)), inv),
                P(RSub(P(c, d), P(a, f)), inv),
                P(RSub(P(d, h), P(e, g)), inv), P(RSub(P(b, g), P(a, h)), inv),
                P(RSub(P(a, e), P(b, d)), inv) >>

-----------------------------------------------------------------------------
(* Specification of computeHomography on bounded inputs *)

MaxCoord == 2       \* source points have x in 0..MaxCoord
YCoords == {0, 1, 2}
RectSizes == {<<1, 1>>, <<2, 3>>, <<100, 100>>}

GridPts == (0..MaxCoord) \X YCoords
RPt(p) == <<R(p[1]), R(p[2])>>
RectPts(dw, dh) == << <<R(0), R(0)>>, <<R(dw), R(0)>>,
                      <<R(dw), R(dh)>>, <<R(0), R(dh)>> >>

\* the engine and the bridge at rest, while one function is exercised
Idle ==
    /\ inbox = <<>> /\ outbox = <<>> /\ jobs = <<>>
    /\ srcCanvas = NULL /\ dstCanvas = NULL
    /\ pendingRef = 0 /\ promises = <<>>
    /\ selector = NULL /\ screen = NULL

NotReturned == [done |-> FALSE, val |-> NULL]
Returned(v) == [done |-> TRUE, val |-> v]

HomInit ==
    /\ \E p1 \in GridPts, p2 \in GridPts, p3 \in GridPts, p4 \in GridPts,
          d \in RectSizes :
          call = [fn |-> "computeHomography",
                  srcPts |-> <<p1, p2, p3, p4>>, dw |-> d[1], dh |-> d[2]]
    /\ ret = NotReturned
    /\ Idle

HomCall ==
    /\ call.fn = "computeHomography"
    /\ ~ret.done
    /\ ret' = Returned(computeHomography(
                            Arr([i \in 1..4 |-> RPt(call.srcPts[i])]),
                            RectPts(call.dw, call.dh)))
    /\ UNCHANGED <<call, engineVars, uiVars>>

HomNext == HomCall

HomSpec == HomInit /\ [][HomNext]_vars

Cross(a, b, c) ==
    (b[1] - a[1]) * (c[2] - a[2]) - (b[2] - a[2]) * (c[1] - a[1])

Collinear(pts) ==
    \A i \in 1..4, j \in 1..4, k \in 1..4 : Cross(pts[i], pts[j], pts[k]) = 0

\* C4: whenever the four source points are collinear or coincident,
\* computeHomography returns null, whatever the destination rectangle.
C4_CollinearGivesNull ==
    (call.fn = "computeHomography" /\ ret.done /\ Collinear(call.srcPts))
        => ret.val = NULL

\* Three distinct collinear points and a fourth on their line were rejected.
C4_Witness ==
    /\ call.fn = "computeHomography"
    /\ ret.done /\ ret.val = NULL
    /\ Collinear(call.srcPts)
    /\ Cardinality({call.srcPts[i] : i \in 1..4}) >= 3

-----------------------------------------------------------------------------
(* processImage, lines 209-224: the destination size *)

Max(a, b) == IF a > b THEN a ELSE b
Min(a, b) == IF a < b THEN a ELSE b

\* the largest s with s * s <= n, for 0 <= n < 2^31
RECURSIVE ISqrtIn(_, _, _)
ISqrtIn(n, lo, hi) ==
    IF lo = hi THEN lo
    ELSE LET mid == (lo + hi + 1) \div 2
         IN  IF mid * mid <= n THEN ISqrtIn(n, mid, hi)
             ELSE ISqrtIn(n, lo, mid - 1)
ISqrt(n) == ISqrtIn(n, 0, Min(n, 46340))

\* Math.round(v) of a finite number: the nearest integer, halves upwards
RRound(v) == (2 * v[1] + v[2]) \div (2 * v[2])

\* dist(p1, p2) is a square root: the model carries the number under the
\* root, a rational. Math.sqrt is increasing, so Math.max of two roots is the
\* root of the larger radicand.
dist(p1, p2) ==
    RAdd(RMul(RSub(p1[1], p2[1]), RSub(p1[1], p2[1])),
         RMul(RSub(p1[2], p2[2]), RSub(p1[2], p2[2])))

MaxRoot(a, b) == IF RLt(b, a) THEN a ELSE b

\* Math.round(Math.sqrt(q)): the largest r with (2r - 1)^2 <= 4q
RoundRoot(q) ==
    LET q4 == 4 * (q[1] \div q[2]) + (4 * (q[1] % q[2])) \div q[2]
    IN  (ISqrt(q4) + 1) \div 2

minDim == 100
maxDim == 3000

\* scale = maxDim / Math.min(dw, dh): the smaller side is brought to maxDim
scaleBySmallerSide(dw, dh) == RDiv(R(maxDim), R(Min(dw, dh)))

\* var scale = maxDim / Math.max(dw, dh)
scaleFactor(dw, dh) == RDiv(R(maxDim), R(Max(dw, dh)))

\* corners: <<tl, tr, br, bl>>, each <<x, y>> normalized to [0, 1]
destSize(sw, sh, corners) ==
    LET px(c) == <<RMul(c[1], R(sw)), RMul(c[2], R(sh))>>
    IN  Var(px(corners[1]), LAMBDA tl :
        Var(px(corners[2]), LAMBDA tr :
        Var(px(corners[3]), LAMBDA br :
        Var(px(corners[4]), LAMBDA bl :
        Var(RoundRoot(MaxRoot(dist(tl, tr), dist(bl, br))), LAMBDA dwRaw :
        Var(RoundRoot(MaxRoot(dist(tl, bl), dist(tr, br))), LAMBDA dhRaw :
        Var(Max(dwRaw, minDim), LAMBDA dw0 :
        Var(Max(dhRaw, minDim), LAMBDA dh0 :
        Var(scaleFactor(dw0, dh0), LAMBDA scale :
            [srcPts |-> <<tl, tr, br, bl>>,
             clampedW |-> dw0, clampedH |-> dh0,
             dw |-> IF dw0 > maxDim \/ dh0 > maxDim
                    THEN RRound(RMul(R(dw0), scale)) ELSE dw0,
             dh |-> IF dw0 > maxDim \/ dh0 > maxDim
                    THEN RRound(RMul(R(dh0), scale)) ELSE dh0])))))))))

-----------------------------------------------------------------------------
(* Specification of the destination size on bounded inputs *)

CornerDen == 2      \* corner coordinates are k / CornerDen, k in 0..CornerDen
ImageSizes == {<<40, 40>>, <<900, 7000>>, <<7000, 50>>, <<4000, 3000>>}

CornerGrid == (0..CornerDen) \X (0..CornerDen)
NormCorner(k) == <<Norm(k[1], CornerDen), Norm(k[2], CornerDen)>>

SizeInit ==
    /\ \E sz \in ImageSizes, tl \in CornerGrid, tr \in CornerGrid,
          br \in CornerGrid, bl \in CornerGrid :
          call = [fn |-> "destSize", sw |-> sz[1], sh |-> sz[2],
                  corners |-> <<tl, tr, br, bl>>]
    /\ ret = NotReturned
    /\ Idle

SizeCall ==
    /\ call.fn = "destSize"
    /\ ~ret.done
    /\ ret' = Returned(destSize(call.sw, call.sh,
                                Arr([i \in 1..4 |-> NormCorner(call.corners[i])])))
    /\ UNCHANGED <<call, engineVars, uiVars>>

SizeNext == SizeCall

SizeSpec == SizeInit /\ [][SizeNext]_vars

\* tl, tr, br, bl go round a convex quadrilateral of positive area
NonDegenerate(c) ==
    LET o == <<Cross(c[1], c[2], c[3]), Cross(c[2], c[3], c[4]),
               Cross(c[3], c[4], c[1]), Cross(c[4], c[1], c[2])>>
    IN  (\A i \in 1..4 : o[i] > 0) \/ (\A i \in 1..4 : o[i] < 0)

\* C5: for every image size and every non-degenerate corner set in [0,1],
\* the destination width and height are both >= 100 and <= 3000.
C5_SizeWithinBounds ==
    (call.fn = "destSize" /\ ret.done /\ NonDegenerate(call.corners))
        => /\ minDim <= ret.val.dw /\ ret.val.dw <= maxDim
           /\ minDim <= ret.val.dh /\ ret.val.dh <= maxDim

\* C6: when a clamped side exceeds 3000 the larger side becomes exactly 3000
\* and each side is the integer nearest to its exactly scaled value (so the
\* ratio is kept up to rounding); otherwise both sides are left as clamped.
C6_UniformDownscale ==
    (call.fn = "destSize" /\ ret.done) =>
        LET w0 == ret.val.clampedW
            h0 == ret.val.clampedH
            m == Max(w0, h0)
        IN  IF w0 > maxDim \/ h0 > maxDim
            THEN /\ Max(ret.val.dw, ret.val.dh) = maxDim
                 /\ 2 * Abs(ret.val.dw * m - w0 * maxDim) <= m
                 /\ 2 * Abs(ret.val.dh * m - h0 * maxDim) <= m
            ELSE ret.val.dw = w0 /\ ret.val.dh = h0

\* A 7000 x 50 image cropped in full: 7000 x 100 after the clamp, scaled down.
C6_Witness ==
    /\ call.fn = "destSize" /\ ret.done
    /\ ret.val.clampedW > maxDim
    /\ ret.val.clampedH = minDim
    /\ ret.val.dw = maxDim
    /\ ret.val.dh < ret.val.clampedH

-----------------------------------------------------------------------------
(* bilinear and warp *)

\* s[i] of a typed array or ImageData buffer, i counted from 0; a read past
\* the end is undefined, which is NaN in arithmetic
Read(s, i) == IF 0 <= i /\ i < Len(s) THEN R(s[i + 1]) ELSE NaN

\* storing v into a Uint8ClampedArray: NaN is 0, the range is clamped to
\* 0..255 and halves are rounded to the even neighbour
ToUint8Clamped(v) ==
    IF IsNaN(v) \/ RLe(v, R(0)) THEN 0
    ELSE IF RLe(R(255), v) THEN 255
    ELSE LET f == RFloor(v)
             twice == RSub(RMul(R(2), v), R(2 * f))     \* 2 * (v - f)
         IN  IF RLt(twice, R(1)) THEN f
             ELSE IF RLt(R(1), twice) THEN f + 1
             ELSE IF f % 2 = 0 THEN f ELSE f + 1

Sample(s, i00, i10, i01, i11, c, fx, fy) ==
    LET gx == RSub(R(1), fx)
        gy == RSub(R(1), fy)
    IN  RAdd(RAdd(RAdd(RMul(RMul(Read(s, i00 + c), gx), gy),
                       RMul(RMul(Read(s, i10 + c), fx), gy)),
                  RMul(RMul(Read(s, i01 + c), gx), fy)),
             RMul(RMul(Read(s, i11 + c), fx), fy))

\* the weights of fx and 1 - fx (and of fy and 1 - fy) exchanged
bilinearSwapped(srcData, sw, sh, x, y) ==
    LET fx0 == RFloor(x)
        fy0 == RFloor(y)
        x1 == Min(fx0 + 1, sw - 1)
        y1 == Min(fy0 + 1, sh - 1)
        x0 == Max(0, fx0)
        y0 == Max(0, fy0)
        fx == RSub(R(1), RSub(x, R(RFloor(x))))
        fy == RSub(R(1), RSub(y, R(RFloor(y))))
    IN  [c \in 1..3 |-> Sample(srcData, (y0 * sw + x0) * 4, (y0 * sw + x1) * 4,
                               (y1 * sw + x0) * 4, (y1 * sw + x1) * 4,
                               c - 1, fx, fy)]

\* the right and lower neighbours taken without the clamp to the last
\* column and row
sampleCornersNoClamp(sw, sh, x, y) ==
    [x0 |-> Max(0, RFloor(x)), y0 |-> Max(0, RFloor(y)),
     x1 |-> RFloor(x) + 1, y1 |-> RFloor(y) + 1]

\* x0, y0, x1, y1 of bilinear, lines 83-85
sampleCorners(sw, sh, x, y) ==
    LET fx0 == RFloor(x)
        fy0 == RFloor(y)
    IN  [x0 |-> Max(0, fx0), y0 |-> Max(0, fy0),
         x1 |-> Min(fx0 + 1, sw - 1), y1 |-> Min(fy0 + 1, sh - 1)]

\* idx00, idx10, idx01, idx11 of bilinear
sampleIndices(sw, k) ==
    [idx00 |-> (k.y0 * sw + k.x0) * 4, idx10 |-> (k.y0 * sw + k.x1) * 4,
     idx01 |-> (k.y1 * sw + k.x0) * 4, idx11 |-> (k.y1 * sw + k.x1) * 4]

bilinear(srcData, sw, sh, x, y) ==
    LET at == sampleIndices(sw, sampleCorners(sw, sh, x, y))
        fx == RSub(x, R(RFloor(x)))
        fy == RSub(y, R(RFloor(y)))
        idx00 == at.idx00
        idx10 == at.idx10
        idx01 == at.idx01
        idx11 == at.idx11
    IN  [c \in 1..3 |-> Sample(srcData, idx00, idx10, idx01, idx11,
                               c - 1, fx, fy)]

\* H_inv[6]*dx + H_inv[7]*dy + H_inv[8] and the two numerators, row by row
HomRow(H, r, dx, dy) ==
    RAdd(RAdd(RMul(H[3 * r + 1], R(dx)), RMul(H[3 * r + 2], R(dy))), H[3 * r + 3])

InSource(sx, sy, sw, sh) ==
    RLe(R(0), sx) /\ RLt(sx, R(sw)) /\ RLe(R(0), sy) /\ RLt(sy, R(sh))

\* out[idx+3] = 255 moved inside the bounds test
warpPixelAlphaInside(srcData, sw, sh, H_inv, dx, dy) ==
    LET w == HomRow(H_inv, 2, dx, dy)
        sx == RDiv(HomRow(H_inv, 0, dx, dy), w)
        sy == RDiv(HomRow(H_inv, 1, dx, dy), w)
    IN  IF InSource(sx, sy, sw, sh)
        THEN LET rgb == bilinear(srcData, sw, sh, sx, sy)
             IN  <<ToUint8Clamped(rgb[1]), ToUint8Clamped(rgb[2]),
                   ToUint8Clamped(rgb[3]), 255>>
        ELSE <<0, 0, 0, 0>>

\* one turn of warp's inner loop: the four bytes written at idx
warpPixel(srcData, sw, sh, H_inv, dx, dy) ==
    LET w == HomRow(H_inv, 2, dx, dy)
        sx == RDiv(HomRow(H_inv, 0, dx, dy), w)
        sy == RDiv(HomRow(H_inv, 1, dx, dy), w)
    IN  IF InSource(sx, sy, sw, sh)
        THEN LET rgb == bilinear(srcData, sw, sh, sx, sy)
             IN  <<ToUint8Clamped(rgb[1]), ToUint8Clamped(rgb[2]),
                   ToUint8Clamped(rgb[3]), 255>>
        ELSE <<0, 0, 0, 255>>

warp(srcData, sw, sh, H_inv, dw, dh) ==
    LET px == Arr([p \in 1..(dw * dh) |->
                    warpPixel(srcData, sw, sh, H_inv,
                              (p - 1) % dw, (p - 1) \div dw)])
    IN  Arr([i \in 1..(dw * dh * 4) |-> px[((i - 1) \div 4) + 1][((i - 1) % 4) + 1]])

-----------------------------------------------------------------------------
(* Specification of warp on bounded inputs *)

MaxSide == 4        \* rasters are 1..MaxSide wide and high
Patterns == {0, 1, 2}

\* an RGBA raster of sw x sh opaque pixels, its colours set by the pattern
Raster(sw, sh, p) ==
    Arr([i \in 1..(sw * sh * 4) |->
            IF (i - 1) % 4 = 3 THEN 255
            ELSE (((i - 1) \div 4) * 37 + ((i - 1) % 4) * 101 + p * 59 + 11) % 256])

Q(n, d) == Norm(n, d)
IdentityH == <<R(1), R(0), R(0),  R(0), R(1), R(0),  R(0), R(0), R(1)>>
InverseMaps == {
    IdentityH,
    <<R(1), R(0), R(-1),  R(0), R(1), R(0),  R(0), R(0), R(1)>>,
    <<Q(1, 2), R(0), R(0),  R(0), Q(1, 2), R(0),  R(0), R(0), R(1)>>,
    <<Q(1, 2), R(0), Q(1, 4),  R(0), Q(3, 4), Q(1, 8),  R(0), R(0), R(1)>>,
    <<R(2), R(0), R(0),  R(0), R(2), R(0),  R(0), R(0), R(1)>>,
    <<R(1), R(0), R(0),  R(0), R(1), R(0),  R(1), R(0), R(-1)>>,
    <<R(1), R(0), R(0),  R(0), R(1), R(0),  R(1), R(1), R(1)>> }

WarpInit ==
    /\ \E sw \in 1..MaxSide, sh \in 1..MaxSide, dw \in 1..MaxSide,
          dh \in 1..MaxSide, p \in Patterns, H \in InverseMaps :
          call = [fn |-> "warp", srcData |-> Raster(sw, sh, p),
                  sw |-> sw, sh |-> sh, H_inv |-> H, dw |-> dw, dh |-> dh]
    /\ ret = NotReturned
    /\ Idle

WarpCall ==
    /\ call.fn = "warp"
    /\ ~ret.done
    /\ ret' = Returned(warp(call.srcData, call.sw, call.sh, call.H_inv,
                            call.dw, call.dh))
    /\ UNCHANGED <<call, engineVars, uiVars>>

WarpNext == WarpCall

WarpSpec == WarpInit /\ [][WarpNext]_vars

\* the bytes of pixel (x, y) in a flat RGBA buffer of the given width
PixelAt(buf, width, x, y) ==
    [c \in 1..4 |-> buf[(y * width + x) * 4 + c]]

\* (dx, dy) maps outside [0, sw) x [0, sh), or its divisor w is 0
MapsOutside(H, dx, dy, sw, sh) ==
    LET w == HomRow(H, 2, dx, dy)
        nx == HomRow(H, 0, dx, dy)
        ny == HomRow(H, 1, dx, dy)
    IN  \/ w[1] = 0
        \/ Sign(nx[1]) * Sign(w[1]) < 0
        \/ Sign(ny[1]) * Sign(w[1]) < 0
        \/ ~RLt(RAbs(nx), RMul(R(sw), RAbs(w)))
        \/ ~RLt(RAbs(ny), RMul(R(sh), RAbs(w)))

\* C8: warp returns dw*dh*4 bytes, every pixel has alpha 255, and every
\* pixel that maps outside the source (or whose divisor is 0) is (0,0,0,255).
C8_OpaqueAndBlackOutside ==
    (call.fn = "warp" /\ ret.done) =>
        /\ Len(ret.val) = call.dw * call.dh * 4
        /\ \A i \in 1..Len(ret.val) : ret.val[i] \in 0..255
        /\ \A x \in 0..(call.dw - 1), y \in 0..(call.dh - 1) :
              LET px == PixelAt(ret.val, call.dw, x, y)
              IN  /\ px[4] = 255
                  /\ MapsOutside(call.H_inv, x, y, call.sw, call.sh)
                        => px = <<0, 0, 0, 255>>

\* A warp whose divisor is 0 at one pixel and which samples colour at another.
C8_Witness ==
    /\ call.fn = "warp" /\ ret.done
    /\ \E x \in 0..(call.dw - 1), y \in 0..(call.dh - 1) :
          HomRow(call.H_inv, 2, x, y) = R(0)
    /\ \E x \in 0..(call.dw - 1), y \in 0..(call.dh - 1) :
          /\ ~MapsOutside(call.H_inv, x, y, call.sw, call.sh)
          /\ PixelAt(ret.val, call.dw, x, y) # <<0, 0, 0, 255>>

Interior(x, y, w, h) == 0 < x /\ x < w - 1 /\ 0 < y /\ y < h - 1

\* C9: under the identity inverse homography and a destination of the
\* source's size, every interior pixel keeps its three colour channels.
C9_IdentityWarp ==
    (/\ call.fn = "warp" /\ ret.done
     /\ call.H_inv = IdentityH /\ call.dw = call.sw /\ call.dh = call.sh) =>
        \A x \in 0..(call.sw - 1), y \in 0..(call.sh - 1) :
            Interior(x, y, call.sw, call.sh) =>
                \A c \in 1..3 : PixelAt(ret.val, call.dw, x, y)[c]
                                  = PixelAt(call.srcData, call.sw, x, y)[c]

\* An identity warp of a raster with at least two interior pixels.
C9_Witness ==
    /\ call.fn = "warp" /\ ret.done
    /\ call.H_inv = IdentityH /\ call.dw = call.sw /\ call.dh = call.sh
    /\ Cardinality({p \in (0..(call.sw - 1)) \X (0..(call.sh - 1)) :
                        Interior(p[1], p[2], call.sw, call.sh)}) >= 2
    /\ \E x \in 0..(call.sw - 1), y \in 0..(call.sh - 1) :
          /\ Interior(x, y, call.sw, call.sh)
          /\ PixelAt(ret.val, call.dw, x, y) # PixelAt(ret.val, call.dw, 0, 0)

-----------------------------------------------------------------------------
(* adaptiveThreshold and toGray *)

\* a[i] of a Float64Array, i counted from 0
ReadNum(a, i) == IF 0 <= i /\ i < Len(a) THEN a[i + 1] ELSE NaN

\* gray[i] = 0.299*data[i*4] + 0.587*data[i*4+1] + 0.114*data[i*4+2]
toGray(data, w, h) ==
    Arr([i \in 1..(w * h) |->
            RAdd(RAdd(RMul(Q(299, 1000), Read(data, (i - 1) * 4)),
                      RMul(Q(587, 1000), Read(data, (i - 1) * 4 + 1))),
                 RMul(Q(114, 1000), Read(data, (i - 1) * 4 + 2)))])

\* the first pair of loops, pixel k = y*w + x at a time
RECURSIVE IntegralLoop(_, _, _, _, _, _)
IntegralLoop(gray, w, h, k, rowSum, integral) ==
    IF k >= w * h THEN integral
    ELSE LET y == k \div w
             x == k % w
             sum == RAdd(IF x = 0 THEN R(0) ELSE rowSum, ReadNum(gray, y * w + x))
             above == ReadNum(integral, y * (w + 1) + (x + 1))
         IN  IntegralLoop(gray, w, h, k + 1, sum,
                [integral EXCEPT ![(y + 1) * (w + 1) + (x + 1) + 1] =
                    RAdd(above, sum)])

integralImage(gray, w, h) ==
    IntegralLoop(gray, w, h, 0, R(0),
                 Arr([i \in 1..((w + 1) * (h + 1)) |-> R(0)]))

\* the window's side lengths multiplied without the + 1
windowAreaOpen(x1, y1, x2, y2) == (x2 - x1) * (y2 - y1)

\* var area = (x2-x1+1)*(y2-y1+1)
windowArea(x1, y1, x2, y2) == (x2 - x1 + 1) * (y2 - y1 + 1)

\* the mean taken over blockSize x blockSize pixels even where the window is
\* clipped at the border
thresholdPixelFullArea(gray, integral, w, h, half, C, x, y) ==
    LET x1 == Max(0, x - half)
        y1 == Max(0, y - half)
        x2 == Min(w - 1, x + half)
        y2 == Min(h - 1, y + half)
        area == (2 * half + 1) * (2 * half + 1)
        sum == RAdd(RSub(RSub(ReadNum(integral, (y2 + 1) * (w + 1) + (x2 + 1)),
                              ReadNum(integral, y1 * (w + 1) + (x2 + 1))),
                         ReadNum(integral, (y2 + 1) * (w + 1) + x1)),
                    ReadNum(integral, y1 * (w + 1) + x1))
        mean == RDiv(sum, R(area))
    IN  IF RLt(ReadNum(gray, y * w + x), RSub(mean, C)) THEN 0 ELSE 255

\* one turn of the second pair of loops: the byte stored at out[y*w+x]
thresholdPixel(gray, integral, w, h, half, C, x, y) ==
    LET x1 == Max(0, x - half)
        y1 == Max(0, y - half)
        x2 == Min(w - 1, x + half)
        y2 == Min(h - 1, y + half)
        area == windowArea(x1, y1, x2, y2)
        sum == RAdd(RSub(RSub(ReadNum(integral, (y2 + 1) * (w + 1) + (x2 + 1)),
                              ReadNum(integral, y1 * (w + 1) + (x2 + 1))),
                         ReadNum(integral, (y2 + 1) * (w + 1) + x1)),
                    ReadNum(integral, y1 * (w + 1) + x1))
        mean == RDiv(sum, R(area))
    IN  IF RLt(ReadNum(gray, y * w + x), RSub(mean, C)) THEN 0 ELSE 255

adaptiveThreshold(gray, w, h, blockSize, C) ==
    LET integral == integralImage(gray, w, h)
        half == blockSize \div 2
    IN  Arr([i \in 1..(w * h) |->
                thresholdPixel(gray, integral, w, h, half, C,
                               (i - 1) % w, (i - 1) \div w)])

-----------------------------------------------------------------------------
(* Specification of adaptiveThreshold on bounded inputs *)

MaxBlock == 5       \* block sizes are 0..MaxBlock
GrayLevels == {R(0), R(10), Q(25, 2), R(200), R(255)}
Offsets == {R(0), R(10)}

\* a constant buffer per level, and the luminance of each pattern raster
GrayBuffers(w, h) ==
    {Arr([i \in 1..(w * h) |-> v]) : v \in GrayLevels}
        \cup {toGray(Raster(w, h, p), w, h) : p \in Patterns}

ThreshInit ==
    /\ \E w \in 1..MaxSide, h \in 1..MaxSide, bs \in 0..MaxBlock, C \in Offsets :
          \E g \in GrayBuffers(w, h) :
              call = [fn |-> "adaptiveThreshold", gray |-> g, w |-> w, h |-> h,
                      blockSize |-> bs, C |-> C]
    /\ ret = NotReturned
    /\ Idle

ThreshCall ==
    /\ call.fn = "adaptiveThreshold"
    /\ ~ret.done
    /\ ret' = Returned(adaptiveThreshold(call.gray, call.w, call.h,
                                         call.blockSize, call.C))
    /\ UNCHANGED <<call, engineVars, uiVars>>

ThreshNext == ThreshCall

ThreshSpec == ThreshInit /\ [][ThreshNext]_vars

Uniform(buf) == \A i \in 1..Len(buf) : buf[i] = buf[1]

\* C10: on a constant luminance buffer, with C = 10 and any width, height
\* and block size, every element adaptiveThreshold returns is 255.
C10_UniformGivesBackground ==
    (/\ call.fn = "adaptiveThreshold" /\ ret.done
     /\ call.C = R(10) /\ Uniform(call.gray)) =>
        /\ Len(ret.val) = call.w * call.h
        /\ \A i \in 1..Len(ret.val) : ret.val[i] = 255

\* A constant bright buffer whose windows are clipped at the border.
C10_Witness ==
    /\ call.fn = "adaptiveThreshold" /\ ret.done
    /\ call.C = R(10) /\ Uniform(call.gray) /\ call.gray[1] = R(200)
    /\ call.w >= 3 /\ call.h >= 2 /\ call.blockSize = 3
    /\ \A i \in 1..Len(ret.val) : ret.val[i] = 255

-----------------------------------------------------------------------------
(* processImage: the body of img.onload *)

\* A canvas is its size and what was drawn on it since its bitmap was last
\* reset. A new <canvas> is 300 x 150 and blank.
BlankCanvas == [width |-> 300, height |-> 150, layers |-> <<>>]

\* canvas.width = w; canvas.height = h without the reset of the bitmap
setSizeKeepBitmap(canvas, w, h) ==
    [width |-> w, height |-> h, layers |-> canvas.layers]

\* canvas.width = w; canvas.height = h: assigning the size resets the bitmap
setSize(canvas, w, h) == [width |-> w, height |-> h, layers |-> <<>>]

\* ctx.drawImage(img, 0, 0)
drawImage(canvas, img) ==
    [canvas EXCEPT !.layers = Append(@, [op |-> "drawImage", img |-> img.id])]

\* ctx.getImageData(0, 0, w, h).data
getImageData(canvas, w, h) == [w |-> w, h |-> h, of |-> canvas]

\* imgData.data.set(pixels); ctx.putImageData(imgData, 0, 0)
putImageData(canvas, pixels) ==
    [canvas EXCEPT !.layers = Append(@, [op |-> "putImageData", data |-> pixels])]

\* canvas.toDataURL('image/png').split(',')[1]
toDataURL(canvas) == [png |-> canvas]

\* The rasters of a request are 100 x 100 and more, so warp and the
\* enhancement are carried as terms over their arguments here; the functions
\* themselves are the operators warp and adaptiveThreshold above.
enhance(mode, warped, dw, dh) ==
    [op |-> IF mode = "bw" THEN "enhanceBW"
            ELSE IF mode = "gray" THEN "enhanceGray" ELSE "enhanceColor",
     data |-> warped, w |-> dw, h |-> dh]

Failure(message) == [ok |-> FALSE, message |-> message]

\* the canvas sized for the result before the transform is known to exist
throwAfterSizingDst(message, src, dst, dw, dh) ==
    [outcome |-> Failure(message), srcCanvas |-> src,
     dstCanvas |-> setSize(dst, dw, dh)]

\* throw new Error(message) inside the try: the rest of the body is skipped
\* and the catch clause rejects
throwBeforeWarp(message, src, dst, dw, dh) ==
    [outcome |-> Failure(message), srcCanvas |-> src, dstCanvas |-> dst]

\* lines 209-232 of processImage: the size of the result, the homography
\* onto its rectangle and the inverse (not computed when there is no
\* homography)
transformOf(sw, sh, corners) ==
    Var(destSize(sw, sh, corners), LAMBDA size :
    Var(computeHomography(size.srcPts, RectPts(size.dw, size.dh)), LAMBDA H :
        [size |-> size, H |-> H,
         H_inv |-> IF H = NULL THEN NULL ELSE invert3x3(H)]))

ImageA == [id |-> "A", decodes |-> TRUE, width |-> 2, height |-> 2]
ImageB == [id |-> "B", decodes |-> TRUE, width |-> 4, height |-> 2]
Corrupt == [id |-> "corrupt", decodes |-> FALSE, width |-> 0, height |-> 0]

Whole == <<<<R(0), R(0)>>, <<R(1), R(0)>>, <<R(1), R(1)>>, <<R(0), R(1)>>>>
LeftHalf == <<<<R(0), R(0)>>, <<Q(1, 2), R(0)>>, <<Q(1, 2), R(1)>>, <<R(0), R(1)>>>>
Diagonal == <<<<R(0), R(0)>>, <<Q(1, 2), Q(1, 2)>>, <<R(1), R(1)>>, <<Q(1, 2), Q(1, 2)>>>>

Inset == <<<<Q(1, 10), Q(1, 10)>>, <<Q(9, 10), Q(1, 10)>>,
           <<Q(9, 10), Q(9, 10)>>, <<Q(1, 10), Q(9, 10)>>>>
InsetButTr == <<<<Q(1, 10), Q(1, 10)>>, <<R(1), R(0)>>,
                <<Q(9, 10), Q(9, 10)>>, <<Q(1, 10), Q(9, 10)>>>>

\* the image sizes and corners that the requests below carry
KnownTransformArgs ==
    <<<<2, 2, Whole>>, <<4, 2, LeftHalf>>, <<2, 2, Diagonal>>,
      <<2, 2, Inset>>, <<2, 2, InsetButTr>>,
      <<4, 2, Inset>>, <<4, 2, InsetButTr>>>>

\* their transforms, computed once
KnownTransforms ==
    Arr([i \in DOMAIN KnownTransformArgs |->
            transformOf(KnownTransformArgs[i][1], KnownTransformArgs[i][2],
                        KnownTransformArgs[i][3])])

transform(sw, sh, corners) ==
    IF \E i \in DOMAIN KnownTransformArgs :
          KnownTransformArgs[i] = <<sw, sh, corners>>
    THEN KnownTransforms[CHOOSE i \in DOMAIN KnownTransformArgs :
                            KnownTransformArgs[i] = <<sw, sh, corners>>]
    ELSE transformOf(sw, sh, corners)

processImage(img, corners, mode, src, dst) ==
    LET sw == img.width
        sh == img.height
        src1 == drawImage(setSize(src, sw, sh), img)
        srcData == getImageData(src1, sw, sh)
    IN  Var(transform(sw, sh, corners), LAMBDA t :
            IF t.H = NULL
            THEN throwBeforeWarp("Failed to compute homography",
                                 src1, dst, t.size.dw, t.size.dh)
            ELSE IF t.H_inv = NULL
            THEN throwBeforeWarp("Failed to invert homography",
                                 src1, dst, t.size.dw, t.size.dh)
            ELSE
        LET dw == t.size.dw
            dh == t.size.dh
            warped == [op |-> "warp", srcData |-> srcData, sw |-> sw, sh |-> sh,
                       H_inv |-> t.H_inv, dw |-> dw, dh |-> dh]
            dst1 == putImageData(setSize(dst, dw, dh),
                                 enhance(mode, warped, dw, dh))
        IN  [outcome |-> [ok |-> TRUE, base64 |-> toDataURL(dst1),
                          width |-> dw, height |-> dh],
             srcCanvas |-> src1, dstCanvas |-> dst1])

-----------------------------------------------------------------------------
(* The WebView message handler and the ImageProcessor bridge *)

MaxCalls == 3       \* process() is called at most MaxCalls times

\* what a caller passes to process(base64, corners, mode)
Requests == {
    [image |-> ImageA, corners |-> Whole, mode |-> "bw"],
    [image |-> ImageB, corners |-> LeftHalf, mode |-> "color"],
    [image |-> ImageA, corners |-> Diagonal, mode |-> "gray"],
    [image |-> Corrupt, corners |-> Whole, mode |-> "bw"] }

\* Every message carries req, the number of the process() call it stems from.
\* The code has no such field and no step of the model reads it: it is there
\* for the properties to tell the requests apart.

Init ==
    /\ call = [fn |-> "process"]
    /\ ret = NotReturned
    /\ inbox = <<>>
    /\ outbox = <<[type |-> "ready"]>>
    /\ jobs = <<>>
    /\ srcCanvas = BlankCanvas
    /\ dstCanvas = BlankCanvas
    /\ pendingRef = 0
    /\ promises = <<>>
    /\ selector = NULL
    /\ screen = NULL

\* ImageProcessor.process(): a new promise; rejected at once while the WebView
\* is not mounted (ready = FALSE), else its resolvers are stored in
\* pendingRef.current and the payload is posted to the WebView
process(r, ready) ==
    /\ Len(promises) < MaxCalls
    /\ \/ /\ ~ready
          /\ promises' = Append(promises,
                [state |-> "rejected",
                 value |-> [ok |-> FALSE, message |-> "WebView not ready",
                            req |-> Len(promises) + 1]])
          /\ UNCHANGED <<pendingRef, inbox>>
       \/ /\ ready
          /\ promises' = Append(promises, [state |-> "pending", value |-> NULL])
          /\ pendingRef' = Len(promises) + 1
          /\ inbox' = Append(inbox, [type |-> "process", image |-> r.image,
                                     corners |-> r.corners, mode |-> r.mode,
                                     req |-> Len(promises) + 1])

Process(r, ready) ==
    /\ process(r, ready)
    /\ UNCHANGED uiVars
    /\ UNCHANGED <<call, ret, outbox, jobs, srcCanvas, dstCanvas>>

\* the window 'message' listener on a message of type 'process':
\* processImage() creates the promise and starts the image load
Deliver ==
    /\ inbox # <<>>
    /\ Head(inbox).type = "process"
    /\ jobs' = Append(jobs, [msg |-> Head(inbox), state |-> "pending",
                             outcome |-> NULL, posted |-> <<>>])
    /\ inbox' = Tail(inbox)
    /\ UNCHANGED uiVars
    /\ UNCHANGED <<call, ret, outbox, srcCanvas, dstCanvas, pendingRef, promises>>

\* resolve(v) and reject(e): a settled promise stays as it is
settle(job, outcome) ==
    IF job.state # "pending" THEN job
    ELSE [job EXCEPT !.state = IF outcome.ok THEN "fulfilled" ELSE "rejected",
                     !.outcome = outcome]

\* img.onload: the whole body runs in one turn of the event loop
ImgOnload(j) ==
    /\ jobs[j].state = "pending"
    /\ jobs[j].msg.image.decodes
    /\ \E run \in {processImage(jobs[j].msg.image, jobs[j].msg.corners,
                                 jobs[j].msg.mode, srcCanvas, dstCanvas)} :
           /\ jobs' = [jobs EXCEPT ![j] = settle(@, run.outcome)]
           /\ srcCanvas' = run.srcCanvas
           /\ dstCanvas' = run.dstCanvas
    /\ UNCHANGED uiVars
    /\ UNCHANGED <<call, ret, inbox, outbox, pendingRef, promises>>

\* img.onerror
ImgOnerror(j) ==
    /\ jobs[j].state = "pending"
    /\ ~jobs[j].msg.image.decodes
    /\ jobs' = [jobs EXCEPT ![j] = settle(@, Failure("Failed to load image"))]
    /\ UNCHANGED uiVars
    /\ UNCHANGED <<call, ret, inbox, outbox, srcCanvas, dstCanvas,
                   pendingRef, promises>>

\* the function given to .then(): what it posts
thenReply(job) ==
    <<[type |-> "result", base64 |-> job.outcome.base64,
       width |-> job.outcome.width, height |-> job.outcome.height,
       req |-> job.msg.req]>>

\* a .catch() function that posts nothing
catchSilently(job) == <<>>

\* the function given to .catch(): what it posts
catchReply(job) ==
    <<[type |-> "error", message |-> job.outcome.message, req |-> job.msg.req]>>

ThenCallback(j) ==
    /\ jobs[j].state = "fulfilled"
    /\ jobs' = [jobs EXCEPT ![j].state = "done",
                            ![j].posted = @ \o thenReply(jobs[j])]
    /\ outbox' = outbox \o thenReply(jobs[j])
    /\ UNCHANGED uiVars
    /\ UNCHANGED <<call, ret, inbox, srcCanvas, dstCanvas, pendingRef, promises>>

CatchCallback(j) ==
    /\ jobs[j].state = "rejected"
    /\ jobs' = [jobs EXCEPT ![j].state = "done",
                            ![j].posted = @ \o catchReply(jobs[j])]
    /\ outbox' = outbox \o catchReply(jobs[j])
    /\ UNCHANGED uiVars
    /\ UNCHANGED <<call, ret, inbox, srcCanvas, dstCanvas, pendingRef, promises>>

\* ImageProcessor.onMessage, first branch
OnMessageResult ==
    /\ outbox # <<>>
    /\ Head(outbox).type = "result" /\ pendingRef # 0
    /\ promises' = [promises EXCEPT ![pendingRef] =
            IF @.state # "pending" THEN @
            ELSE [state |-> "resolved",
                  value |-> [ok |-> TRUE, base64 |-> Head(outbox).base64,
                             width |-> Head(outbox).width,
                             height |-> Head(outbox).height,
                             req |-> Head(outbox).req]]]
    /\ pendingRef' = 0
    /\ outbox' = Tail(outbox)
    /\ UNCHANGED uiVars
    /\ UNCHANGED <<call, ret, inbox, jobs, srcCanvas, dstCanvas>>

\* ImageProcessor.onMessage, second branch
OnMessageError ==
    /\ outbox # <<>>
    /\ Head(outbox).type = "error" /\ pendingRef # 0
    /\ promises' = [promises EXCEPT ![pendingRef] =
            IF @.state # "pending" THEN @
            ELSE [state |-> "rejected",
                  value |-> [ok |-> FALSE, message |-> Head(outbox).message,
                             req |-> Head(outbox).req]]]
    /\ pendingRef' = 0
    /\ outbox' = Tail(outbox)
    /\ UNCHANGED uiVars
    /\ UNCHANGED <<call, ret, inbox, jobs, srcCanvas, dstCanvas>>

\* ImageProcessor.onMessage: 'ready', or no promise is pending
OnMessageIgnored ==
    /\ outbox # <<>>
    /\ ~(Head(outbox).type \in {"result", "error"} /\ pendingRef # 0)
    /\ outbox' = Tail(outbox)
    /\ UNCHANGED uiVars
    /\ UNCHANGED <<call, ret, inbox, jobs, srcCanvas, dstCanvas,
                   pendingRef, promises>>

WebViewStep ==
    \/ Deliver
    \/ \E j \in DOMAIN jobs : ImgOnload(j)
    \/ \E j \in DOMAIN jobs : ImgOnerror(j)
    \/ \E j \in DOMAIN jobs : ThenCallback(j)
    \/ \E j \in DOMAIN jobs : CatchCallback(j)

Next ==
    \/ \E r \in Requests, ready \in BOOLEAN : Process(r, ready)
    \/ WebViewStep
    \/ OnMessageResult
    \/ OnMessageError
    \/ OnMessageIgnored

Spec == Init /\ [][Next]_vars

-----------------------------------------------------------------------------
(* Properties of the message handler and the bridge *)

IsPrefix(s, t) == Len(s) <= Len(t) /\ SubSeq(t, 1, Len(s)) = s

\* at most one message per job, a result for a fulfilled promise and an error
\* for a rejected one, and exactly one once the promise chain has run
RepliesWellFormed ==
    \A j \in DOMAIN jobs :
        /\ Len(jobs[j].posted) <= 1
        /\ jobs[j].state = "done" <=> Len(jobs[j].posted) = 1
        /\ \A k \in DOMAIN jobs[j].posted :
              /\ jobs[j].posted[k].type \in {"result", "error"}
              /\ jobs[j].posted[k].type = "result" <=> jobs[j].outcome.ok

\* what was posted for a job stays posted, and all of it went to the outbox
RepliesOnlyGrow ==
    \A j \in DOMAIN jobs :
        /\ IsPrefix(jobs[j].posted, jobs'[j].posted)
        /\ jobs[j].state = "done" => jobs'[j] = jobs[j]
        /\ jobs'[j].posted # jobs[j].posted =>
              outbox' = outbox \o SubSeq(jobs'[j].posted, Len(jobs[j].posted) + 1,
                                         Len(jobs'[j].posted))

\* C1: every 'process' message delivered to the handler is answered by
\* exactly one posted message, a result or an error: never two, never a
\* result after an error, and one once the promise of processImage has
\* settled and its callback has run.
C1_ExactlyOneReply == []RepliesWellFormed /\ [][RepliesOnlyGrow]_vars

\* Three messages delivered: one answered by a result, one by the error of a
\* failed transform and one by the error of a failed image load.
C1_Witness ==
    /\ Len(jobs) >= 3
    /\ \A j \in DOMAIN jobs : Len(jobs[j].posted) = 1
    /\ \E j \in DOMAIN jobs : jobs[j].posted[1].type = "result"
    /\ \E j \in DOMAIN jobs :
          /\ jobs[j].posted[1].type = "error"
          /\ jobs[j].posted[1].message = "Failed to load image"
    /\ \E j \in DOMAIN jobs :
          /\ jobs[j].posted[1].type = "error"
          /\ jobs[j].posted[1].message = "Failed to compute homography"

Settled(p) == promises[p].state # "pending"

\* nothing is in flight and the WebView has answered all it received
Quiescent ==
    /\ inbox = <<>> /\ outbox = <<>>
    /\ \A j \in DOMAIN jobs : jobs[j].state = "done"

\* C2: every promise process() returned is settled with the result or error
\* the WebView produced for that call's own request, and none is left
\* unsettled once every request has been answered and delivered.
C2_EachPromiseItsOwnOutcome ==
    /\ \A p \in DOMAIN promises : Settled(p) => promises[p].value.req = p
    /\ Quiescent => \A p \in DOMAIN promises : Settled(p)

\* the transform of a request cannot be computed or cannot be inverted
TransformFails(msg) ==
    /\ msg.image.decodes
    /\ LET size == destSize(msg.image.width, msg.image.height, msg.corners)
           H == computeHomography(size.srcPts, RectPts(size.dw, size.dh))
       IN  H = NULL \/ invert3x3(H) = NULL

FreshOutcome(msg) ==
    IF msg.image.decodes
    THEN processImage(msg.image, msg.corners, msg.mode,
                      BlankCanvas, BlankCanvas).outcome
    ELSE Failure("Failed to load image")

\* C7: whatever was processed before, the outcome of an invocation is the
\* one its own request yields in a fresh engine.
C7_OutcomeIndependentOfHistory ==
    \A j \in DOMAIN jobs :
        jobs[j].state # "pending" => jobs[j].outcome = FreshOutcome(jobs[j].msg)

\* Two images of different sizes were processed one after the other, both
\* with success, on the same two canvases.
C7_Witness ==
    \E j \in DOMAIN jobs, k \in DOMAIN jobs :
        /\ jobs[j].state = "done" /\ jobs[k].state = "done"
        /\ jobs[j].outcome.ok /\ jobs[k].outcome.ok
        /\ jobs[j].msg.image # jobs[k].msg.image
        /\ jobs[j].msg.image.width # jobs[k].msg.image.width

-----------------------------------------------------------------------------
(* enhanceBW *)

\* n | 1 on a non-negative 32-bit integer
BitOr1(n) == IF n % 2 = 0 THEN n + 1 ELSE n

\* Math.max(15, Math.round(Math.min(w,h)/8)|1), made odd
bwBlockSize(w, h) ==
    LET blockSize == Max(15, BitOr1(RRound(Q(Min(w, h), 8))))
    IN  IF blockSize % 2 = 0 THEN blockSize + 1 ELSE blockSize

\* the loop writing bw[i] into all four bytes of a pixel
bwByteAlphaToo(data, bw, k) == bw[((k - 1) \div 4) + 1]

\* data[i*4] = data[i*4+1] = data[i*4+2] = bw[i]: byte k of data afterwards
bwByte(data, bw, k) ==
    IF (k - 1) % 4 = 3 THEN data[k] ELSE bw[((k - 1) \div 4) + 1]

\* enhanceBW works in place: the value is data after the call
enhanceBW(data, w, h) ==
    Var(adaptiveThreshold(toGray(data, w, h), w, h, bwBlockSize(w, h), R(10)),
        LAMBDA bw : Arr([k \in 1..Len(data) |->
                            IF k <= w * h * 4 THEN bwByte(data, bw, k)
                            ELSE data[k]]))

-----------------------------------------------------------------------------
(* enhanceGray and enhanceColor *)

\* sorted[k] of Array.from(vals).sort(function(a,b){return a-b;}), k from 0
sortedAt(vals, k) ==
    CHOOSE v \in {vals[i] : i \in DOMAIN vals} :
        /\ Cardinality({i \in DOMAIN vals : RLt(vals[i], v)}) <= k
        /\ k < Cardinality({i \in DOMAIN vals : RLe(vals[i], v)})

\* Math.floor(n*0.01) and Math.floor(n*0.99), which for the n of this model
\* are the integer quotients
loIndex(n) == n \div 100
hiIndex(n) == (n * 99) \div 100

\* var range = hi - lo || 1
stretchRange(lo, hi) == IF RSub(hi, lo) = R(0) THEN R(1) ELSE RSub(hi, lo)

\* the stretch turned upside down
stretchDescending(v, lo, range) ==
    RSub(R(255), RMul(RDiv(RSub(v, lo), range), R(255)))

\* ((v-lo)/range)*255
stretch(v, lo, range) == RMul(RDiv(RSub(v, lo), range), R(255))

\* v = v < 0 ? 0 : v > 255 ? 255 : v
clamp255(v) == IF RLt(v, R(0)) THEN R(0) ELSE IF RLt(R(255), v) THEN R(255) ELSE v

enhanceGray(data, w, h) ==
    Var(toGray(data, w, h), LAMBDA gray :
    Var(sortedAt(gray, loIndex(Len(gray))), LAMBDA lo :
    Var(stretchRange(lo, sortedAt(gray, hiIndex(Len(gray)))), LAMBDA range :
        Arr([k \in 1..Len(data) |->
                IF k > w * h * 4 \/ (k - 1) % 4 = 3 THEN data[k]
                ELSE clamp255(R(RRound(stretch(gray[((k - 1) \div 4) + 1],
                                               lo, range))))[1]]))))

\* Math.round(Math.pow(v/255, 0.85)*255) is at least k exactly when
\* v/255 >= ((2k-1)/510)^(20/17). GammaCut[k] is that bound, which is
\* irrational, times GammaDen and rounded down; no fraction of denominator up
\* to 255 lies between the two.
GammaDen == 8388608
GammaCut == <<
    5474, 19935, 36360, 54018, 72602, 91935, 111901, 132418,
    153426, 174875, 196727, 218950, 241517, 264405, 287595, 311068,
    334811, 358809, 383050, 407524, 432221, 457131, 482246, 507559,
    533063, 558752, 584619, 610658, 636866, 663236, 689765, 716447,
    743280, 770258, 797379, 824639, 852035, 879564, 907223, 935008,
    962918, 990950, 1019102, 1047371, 1075754, 1104251, 1132858, 1161573,
    1190396, 1219324, 1248355, 1277488, 1306721, 1336052, 1365480, 1395004,
    1424621, 1454332, 1484133, 1514025, 1544005, 1574073, 1604228, 1634468,
    1664791, 1695198, 1725687, 1756257, 1786907, 1817636, 1848443, 1879328,
    1910289, 1941325, 1972436, 2003620, 2034878, 2066208, 2097609, 2129081,
    2160622, 2192233, 2223913, 2255660, 2287475, 2319356, 2351303, 2383315,
    2415392, 2447532, 2479737, 2512004, 2544333, 2576724, 2609177, 2641690,
    2674263, 2706896, 2739587, 2772338, 2805147, 2838013, 2870936, 2903917,
    2936953, 2970045, 3003193, 3036396, 3069653, 3102965, 3136330, 3169748,
    3203220, 3236743, 3270320, 3303947, 3337627, 3371357, 3405138, 3438970,
    3472851, 3506782, 3540762, 3574792, 3608870, 3642996, 3677171, 3711393,
    3745662, 3779979, 3814342, 3848752, 3883208, 3917710, 3952258, 3986851,
    4021489, 4056172, 4090899, 4125671, 4160487, 4195346, 4230249, 4265195,
    4300185, 4335217, 4370291, 4405408, 4440567, 4475767, 4511010, 4546293,
    4581618, 4616984, 4652390, 4687837, 4723323, 4758851, 4794417, 4830024,
    4865670, 4901355, 4937079, 4972842, 5008643, 5044483, 5080362, 5116278,
    5152232, 5188224, 5224253, 5260320, 5296424, 5332564, 5368742, 5404956,
    5441206, 5477493, 5513816, 5550175, 5586569, 5622999, 5659465, 5695966,
    5732502, 5769073, 5805679, 5842319, 5878994, 5915703, 5952447, 5989224,
    6026036, 6062881, 6099760, 6136672, 6173617, 6210596, 6247608, 6284653,
    6321731, 6358841, 6395983, 6433159, 6470366, 6507605, 6544877, 6582180,
    6619515, 6656882, 6694280, 6731710, 6769171, 6806663, 6844185, 6881739,
    6919324, 6956939, 6994585, 7032261, 7069967, 7107704, 7145471, 7183268,
    7221094, 7258950, 7296836, 7334752, 7372697, 7410671, 7448674, 7486707,
    7524768, 7562859, 7600978, 7639126, 7677303, 7715508, 7753741, 7792003,
    7830293, 7868611, 7906957, 7945331, 7983732, 8022162, 8060619, 8099104,
    8137616, 8176155, 8214722, 8253316, 8291937, 8330585, 8369260 >>

\* Math.round(Math.pow(v/255, 0.85)*255) for 0 <= v <= 255
gammaByte(v) ==
    LET x == RDiv(v, R(255))
    IN  IF x[2] > 255 THEN -1      \* a channel value is m/range, range <= 255
        ELSE Cardinality({k \in 1..255 : x[1] * GammaDen > x[2] * GammaCut[k]})

\* channel c (0, 1, 2) of the pixels, as the Float64Array ch
channelOf(data, n, c) == Arr([i \in 1..n |-> R(data[(i - 1) * 4 + c + 1])])

enhanceColor(data, w, h) ==
    LET n == w * h
        plan == Arr([c \in 1..3 |->
                    Var(channelOf(data, n, c - 1), LAMBDA ch :
                    Var(sortedAt(ch, loIndex(n)), LAMBDA lo :
                        [lo |-> lo,
                         range |-> stretchRange(lo, sortedAt(ch, hiIndex(n)))]))])
    IN  Arr([k \in 1..Len(data) |->
                IF k > n * 4 \/ (k - 1) % 4 = 3 THEN data[k]
                ELSE LET c == ((k - 1) % 4) + 1
                     IN  gammaByte(clamp255(stretch(R(data[k]), plan[c].lo,
                                                    plan[c].range)))])

-----------------------------------------------------------------------------
(* Specification of the enhancement modes on bounded inputs *)

AlphaPatterns == {0, 1}

\* the pattern rasters, opaque or with an alpha that differs pixel by pixel,
\* and two rasters of a dark mark on a bright page
EnhRaster(w, h, p, a) ==
    Arr([k \in 1..(w * h * 4) |->
            IF (k - 1) % 4 = 3
            THEN (IF a = 0 THEN 255 ELSE (((k - 1) \div 4) * 53 + 7) % 256)
            ELSE IF p \in Patterns THEN Raster(w, h, p)[k]
            ELSE IF p = 3 THEN (IF (k - 1) \div 4 = 0 THEN 20 ELSE 230)
            ELSE (IF ((k - 1) \div 4) % 3 = 1 THEN 40 + ((k - 1) % 4)
                  ELSE 200 + 10 * ((k - 1) % 4))])

EnhPatterns == Patterns \cup {3, 4}
EnhModes == {"enhanceBW", "enhanceGray", "enhanceColor"}

\* with more than 100 pixels the two percentiles are not the extremes; the
\* stretches run on these sizes too, the threshold on the small ones
LongSizes == {<<101, 1>>, <<34, 3>>}
EnhSizes == ((1..MaxSide) \X (1..MaxSide)) \cup LongSizes

EnhInit ==
    /\ \E size \in EnhSizes, p \in EnhPatterns, a \in AlphaPatterns,
          f \in EnhModes :
          /\ f = "enhanceBW" => size \notin LongSizes
          /\ call = [fn |-> f, data |-> EnhRaster(size[1], size[2], p, a),
                     w |-> size[1], h |-> size[2]]
    /\ ret = NotReturned
    /\ Idle

EnhBWCall ==
    /\ call.fn = "enhanceBW"
    /\ ~ret.done
    /\ ret' = Returned(enhanceBW(call.data, call.w, call.h))
    /\ UNCHANGED <<call, engineVars, uiVars>>

EnhGrayCall ==
    /\ call.fn = "enhanceGray"
    /\ ~ret.done
    /\ ret' = Returned(enhanceGray(call.data, call.w, call.h))
    /\ UNCHANGED <<call, engineVars, uiVars>>

EnhColorCall ==
    /\ call.fn = "enhanceColor"
    /\ ~ret.done
    /\ ret' = Returned(enhanceColor(call.data, call.w, call.h))
    /\ UNCHANGED <<call, engineVars, uiVars>>

EnhNext == EnhBWCall \/ EnhGrayCall \/ EnhColorCall

EnhSpec == EnhInit /\ [][EnhNext]_vars

\* C11: after enhanceBW on any raster, every pixel has R = G = B, equal to 0
\* or to 255, and the alpha it had before.
C11_BinaryAndAlphaKept ==
    (call.fn = "enhanceBW" /\ ret.done) =>
        /\ Len(ret.val) = Len(call.data)
        /\ \A i \in 0..(call.w * call.h - 1) :
              /\ ret.val[i * 4 + 1] \in {0, 255}
              /\ ret.val[i * 4 + 2] = ret.val[i * 4 + 1]
              /\ ret.val[i * 4 + 3] = ret.val[i * 4 + 1]
              /\ ret.val[i * 4 + 4] = call.data[i * 4 + 4]

\* A raster with translucent pixels came out with black and white pixels.
C11_Witness ==
    /\ call.fn = "enhanceBW" /\ ret.done
    /\ \E i \in 0..(call.w * call.h - 1) :
          call.data[i * 4 + 4] \notin {0, 255} /\ ret.val[i * 4 + 1] = 0
    /\ \E i \in 0..(call.w * call.h - 1) : ret.val[i * 4 + 1] = 255

\* C12: within one call of enhanceGray, on the luminance, and of
\* enhanceColor, on each channel by itself, a pixel with a smaller input
\* never gets a larger output, and every output is in 0..255.
C12_StretchMonotone ==
    /\ (call.fn = "enhanceGray" /\ ret.done) =>
          LET gray == toGray(call.data, call.w, call.h)
          IN  \A i \in 1..(call.w * call.h) :
                /\ ret.val[(i - 1) * 4 + 1] \in 0..255
                /\ \A j \in 1..(call.w * call.h) :
                      RLt(gray[i], gray[j]) =>
                          ret.val[(i - 1) * 4 + 1] <= ret.val[(j - 1) * 4 + 1]
    /\ (call.fn = "enhanceColor" /\ ret.done) =>
          \A c \in 1..3, i \in 1..(call.w * call.h) :
              /\ ret.val[(i - 1) * 4 + c] \in 0..255
              /\ \A j \in 1..(call.w * call.h) :
                    call.data[(i - 1) * 4 + c] < call.data[(j - 1) * 4 + c] =>
                        ret.val[(i - 1) * 4 + c] <= ret.val[(j - 1) * 4 + c]

\* A channel of more than 100 pixels was stretched: a value below the low
\* percentile went to 0, one above the high percentile to 255, and values
\* between them to outputs strictly between, in order.
C12_Witness ==
    /\ call.fn = "enhanceColor" /\ ret.done
    /\ call.w * call.h > 100
    /\ LET ch == channelOf(call.data, call.w * call.h, 0)
           lo == sortedAt(ch, loIndex(Len(ch)))
           hi == sortedAt(ch, hiIndex(Len(ch)))
       IN  /\ \E i \in DOMAIN ch : RLt(ch[i], lo) /\ ret.val[(i - 1) * 4 + 1] = 0
           /\ \E i \in DOMAIN ch : RLt(hi, ch[i]) /\ ret.val[(i - 1) * 4 + 1] = 255
           /\ \E i \in DOMAIN ch, j \in DOMAIN ch :
                 /\ 0 < ret.val[(i - 1) * 4 + 1]
                 /\ ret.val[(i - 1) * 4 + 1] < ret.val[(j - 1) * 4 + 1]
                 /\ ret.val[(j - 1) * 4 + 1] < 255

-----------------------------------------------------------------------------
(* Specification of solve on bounded inputs *)

\* M[i] = A[i] without the copy: the row of A itself is extended and reduced
sameRow(row) == [cells |-> row, shared |-> TRUE]

\* A[i].slice(): a new array with the elements of A[i]
sliceRow(row) == [cells |-> row, shared |-> FALSE]

\* A and b as the caller finds them after solve(A, b): a row of A that M
\* shares has at least b[i] pushed onto it
argsAfter(A, b) ==
    [A |-> Arr([i \in 1..Len(A) |->
                   IF sliceRow(A[i]).shared THEN Append(A[i], b[i]) ELSE A[i]]),
     b |-> b]

SolveSizes == {1, 2}        \* every system of these sizes over SolveEntries
SolveEntries == {R(-1), R(0), R(1), R(2), Q(1, 2)}
SolveRows3 == {<<R(1), R(0), R(0)>>, <<R(0), R(1), R(2)>>, <<R(0), R(0), R(1)>>,
               <<R(1), R(1), R(1)>>, <<R(2), R(-1), Q(1, 2)>>, <<R(0), R(0), R(0)>>}
SolveRhs3 == {<<R(1), R(2), R(-1)>>, <<R(0), R(0), R(0)>>, <<R(0), R(1), Q(1, 2)>>}

Vectors(n) == [1..n -> SolveEntries]
Matrices(n) == [1..n -> Vectors(n)]

SolveInit ==
    /\ \/ \E n \in SolveSizes : \E A \in Matrices(n), b \in Vectors(n) :
             call = [fn |-> "solve", A |-> A, b |-> b]
       \/ \E r1 \in SolveRows3, r2 \in SolveRows3, r3 \in SolveRows3,
             b \in SolveRhs3 :
             call = [fn |-> "solve", A |-> <<r1, r2, r3>>, b |-> b]
    /\ ret = NotReturned
    /\ Idle

SolveCall ==
    /\ call.fn = "solve"
    /\ ~ret.done
    /\ ret' = Returned([x |-> solve(call.A, call.b),
                        args |-> argsAfter(call.A, call.b)])
    /\ UNCHANGED <<call, engineVars, uiVars>>

SolveNext == SolveCall

SolveSpec == SolveInit /\ [][SolveNext]_vars

\* the largest magnitude in column col among rows col..n
ColumnMax(M, n, col) ==
    CHOOSE v \in {RAbs(M[row][col]) : row \in col..n} :
        \A row \in col..n : RLe(RAbs(M[row][col]), v)

\* The matrices of the elimination after the row exchange of each column,
\* up to the first column whose largest entry is below 1e-10.
RECURSIVE PivotSteps(_, _, _)
PivotSteps(M, n, col) ==
    IF col > n THEN <<>>
    ELSE LET S == SwapRows(M, col, FindMaxRow(M, n, col, col + 1, col))
         IN  IF BelowEps(ColumnMax(M, n, col)) THEN <<S>>
             ELSE <<S>> \o PivotSteps(EliminateBelow(S, n, col), n, col + 1)

Augmented(A, b) == Arr([i \in 1..Len(b) |-> Append(A[i], b[i])])

RECURSIVE SumTo(_, _)
SumTo(f, k) == IF k = 0 THEN R(0) ELSE RAdd(SumTo(f, k - 1), f[k])

MatVec(A, x) ==
    [i \in 1..Len(A) |-> SumTo([j \in 1..Len(x) |-> RMul(A[i][j], x[j])], Len(x))]

C13_WitnessSingular ==
    /\ call.fn = "solve" /\ ret.done
    /\ Len(call.b) = 3 /\ ret.val.x = NULL
    /\ Len(PivotSteps(Augmented(call.A, call.b), 3, 1)) = 3

-----------------------------------------------------------------------------
(* adaptiveThreshold against the mean of the clipped window *)

\* the pixels of [x-half, x+half] x [y-half, y+half] that are in the image
ClippedWindow(w, h, half, x, y) ==
    {p \in (0..(w - 1)) \X (0..(h - 1)) :
        /\ x - half <= p[1] /\ p[1] <= x + half
        /\ y - half <= p[2] /\ p[2] <= y + half}

\* the sum of gray over a set of pixels, taken pixel by pixel
SumOver(gray, w, pts) ==
    SumTo(Arr([k \in 1..Len(gray) |->
                  IF <<(k - 1) % w, (k - 1) \div w>> \in pts THEN gray[k]
                  ELSE R(0)]), Len(gray))

\* the four lookups of lines 136-137 for the window x1..x2, y1..y2
LookupSum(integral, w, x1, y1, x2, y2) ==
    RAdd(RSub(RSub(ReadNum(integral, (y2 + 1) * (w + 1) + (x2 + 1)),
                   ReadNum(integral, y1 * (w + 1) + (x2 + 1))),
              ReadNum(integral, (y2 + 1) * (w + 1) + x1)),
         ReadNum(integral, y1 * (w + 1) + x1))

\* C14: at every pixel the four lookups in the integral image give the sum
\* of the luminance over the window clipped to the image, area is the number
\* of pixels of that window, and the pixel is 0 exactly when its value is
\* less than the mean of the clipped window minus C, 255 otherwise.
C14_ClippedWindowMean ==
    (call.fn = "adaptiveThreshold" /\ ret.done) =>
        LET w == call.w
            h == call.h
            half == call.blockSize \div 2
            integral == integralImage(call.gray, w, h)
        IN  \A x \in 0..(w - 1), y \in 0..(h - 1) :
              LET win == ClippedWindow(w, h, half, x, y)
                  direct == SumOver(call.gray, w, win)
                  x1 == Max(0, x - half)
                  y1 == Max(0, y - half)
                  x2 == Min(w - 1, x + half)
                  y2 == Min(h - 1, y + half)
                  below == RLt(ReadNum(call.gray, y * w + x),
                               RSub(RDiv(direct, R(Cardinality(win))), call.C))
              IN  /\ LookupSum(integral, w, x1, y1, x2, y2) = direct
                  /\ windowArea(x1, y1, x2, y2) = Cardinality(win)
                  /\ ret.val[y * w + x + 1] = (IF below THEN 0 ELSE 255)

\* A buffer that is not constant, with windows clipped at the border, came
\* out with pixels of both values, one of them at a corner of the image.
C14_Witness ==
    /\ call.fn = "adaptiveThreshold" /\ ret.done
    /\ ~Uniform(call.gray)
    /\ call.blockSize = 3 /\ call.w = MaxSide /\ call.h >= 3
    /\ ret.val[1] = 0
    /\ \E i \in 1..Len(ret.val) : ret.val[i] = 255
    /\ \E i \in 1..Len(ret.val) :
          /\ ret.val[i] = 0
          /\ (i - 1) % call.w \in 1..(call.w - 2)
          /\ (i - 1) \div call.w \in 1..(call.h - 2)

-----------------------------------------------------------------------------
(* The reads of bilinear under warp's bounds test *)

\* sx and sy of warp for the destination pixel (dx, dy)
SourcePos(H, dx, dy) ==
    LET w == HomRow(H, 2, dx, dy)
    IN  <<RDiv(HomRow(H, 0, dx, dy), w), RDiv(HomRow(H, 1, dx, dy), w)>>

\* the destination pixels whose source position passes the bounds test
SampledPixels ==
    {d \in (0..(call.dw - 1)) \X (0..(call.dh - 1)) :
        LET s == SourcePos(call.H_inv, d[1], d[2])
        IN  InSource(s[1], s[2], call.sw, call.sh)}

\* C15: for every source position that passes warp's bounds test, bilinear
\* has 0 <= x0 <= x1 <= sw-1 and 0 <= y0 <= y1 <= sh-1, and all the bytes it
\* reads are bytes of the source buffer.
C15_SamplesInsideSource ==
    (call.fn = "warp" /\ ret.done) =>
        \A d \in SampledPixels :
            LET s == SourcePos(call.H_inv, d[1], d[2])
                k == sampleCorners(call.sw, call.sh, s[1], s[2])
                at == sampleIndices(call.sw, k)
            IN  /\ 0 <= k.x0 /\ k.x0 <= k.x1 /\ k.x1 <= call.sw - 1
                /\ 0 <= k.y0 /\ k.y0 <= k.y1 /\ k.y1 <= call.sh - 1
                /\ \A i \in {at.idx00, at.idx10, at.idx01, at.idx11} :
                      0 <= i /\ i + 2 < Len(call.srcData)

\* warp has run on a map that samples between pixels and in the last column
\* and the last row, where the neighbour is clamped.
C15_Witness ==
    /\ call.fn = "warp" /\ ret.done
    /\ \E d \in SampledPixels :
          LET s == SourcePos(call.H_inv, d[1], d[2])
              k == sampleCorners(call.sw, call.sh, s[1], s[2])
          IN  /\ k.x0 = call.sw - 1 /\ k.x1 = k.x0
              /\ k.y1 = k.y0 + 1 /\ s[2][2] # 1
    /\ \E d \in SampledPixels :
          LET s == SourcePos(call.H_inv, d[1], d[2])
              k == sampleCorners(call.sw, call.sh, s[1], s[2])
          IN  k.y0 = call.sh - 1 /\ k.y1 = k.y0 /\ k.x1 = k.x0 + 1

-----------------------------------------------------------------------------
(* CornerSelector: the pan responder *)

HANDLE_HIT_RADIUS == 60
CORNER_KEYS == <<"tl", "tr", "br", "bl">>

Pt(x, y) == <<x, y>>
DEFAULT_CORNERS ==
    [k \in {"tl", "tr", "br", "bl"} |->
        Pt(IF k \in {"tl", "bl"} THEN Q(1, 10) ELSE Q(9, 10),
           IF k \in {"tl", "tr"} THEN Q(1, 10) ELSE Q(9, 10))]

\* a || b on numbers: b when a is 0 or NaN
OrElse(a, b) == IF IsNaN(a) \/ a = R(0) THEN b ELSE a

\* Math.min and Math.max of two numbers: NaN if either is NaN
RMin(a, b) == IF IsNaN(a) \/ IsNaN(b) THEN NaN ELSE IF RLt(b, a) THEN b ELSE a
RMax(a, b) == IF IsNaN(a) \/ IsNaN(b) THEN NaN ELSE IF RLt(a, b) THEN b ELSE a

getDisplayMetrics(l, imageAspect) ==
    LET la == OrElse(RDiv(l.width, l.height), R(1))
    IN  IF RLt(la, imageAspect)
        THEN LET dh == RDiv(l.width, imageAspect)
             IN  [dw |-> l.width, dh |-> dh, ox |-> R(0),
                  oy |-> RDiv(RSub(l.height, dh), R(2))]
        ELSE LET dw == RMul(l.height, imageAspect)
             IN  [dw |-> dw, dh |-> l.height,
                  ox |-> RDiv(RSub(l.width, dw), R(2)), oy |-> R(0)]

\* the square of Math.hypot(sx - locationX, sy - locationY) for corner c
hypot2(m, c, touch) ==
    LET ex == RSub(RAdd(m.ox, RMul(c[1], m.dw)), touch[1])
        ey == RSub(RAdd(m.oy, RMul(c[2], m.dh)), touch[2])
    IN  RAdd(RMul(ex, ex), RMul(ey, ey))

\* the hit test without the radius
withinAnyDistance(d2) == TRUE

\* d < HANDLE_HIT_RADIUS, on the squares
withinReach(d2) == RLt(d2, R(HANDLE_HIT_RADIUS * HANDLE_HIT_RADIUS))

\* the loop over CORNER_KEYS of onPanResponderGrant, from key number i on
RECURSIVE closestCorner(_, _, _, _, _, _)
closestCorner(m, corners, touch, i, best, bestDist2) ==
    IF i > Len(CORNER_KEYS) THEN best
    ELSE LET d2 == hypot2(m, corners[CORNER_KEYS[i]], touch)
         IN  IF RLt(d2, bestDist2) /\ withinReach(d2)
             THEN closestCorner(m, corners, touch, i + 1, CORNER_KEYS[i], d2)
             ELSE closestCorner(m, corners, touch, i + 1, best, bestDist2)

\* Math.max(0, Math.min(1, (location - o) / (d || 1)))
normalize(location, o, d) ==
    RMax(R(0), RMin(R(1), RDiv(RSub(location, o), OrElse(d, R(1)))))

-----------------------------------------------------------------------------
(* Specification of the CornerSelector gestures *)

MaxEvents == 4      \* touch and layout events in one behaviour
ImageSizesShown == {<<4, 3>>, <<3, 4>>, <<1, 1>>}
Layouts == {<<400, 300>>, <<300, 400>>}
TouchPoints == {Pt(R(30), R(20)), Pt(R(99), R(30)), Pt(R(100), R(30)),
                Pt(R(200), R(150)), Pt(R(350), R(40)), Pt(R(-20), R(500)),
                Pt(R(290), R(312))}

NoKey == "null"

\* grant and last are records of what happened, kept for the properties:
\* the touch that began the gesture, and the last call of onCornersChange
CornerInit ==
    /\ \E size \in ImageSizesShown :
          selector = [imageAspect |-> Q(size[1], size[2]),
                      layout |-> [width |-> R(0), height |-> R(0)],
                      corners |-> DEFAULT_CORNERS,
                      activeCornerRef |-> NoKey,
                      touching |-> FALSE,
                      grant |-> NULL, last |-> NULL,
                      events |-> 0, moves |-> 0, emits |-> 0]
    /\ call = [fn |-> "CornerSelector"]
    /\ ret = NotReturned
    /\ inbox = <<>> /\ outbox = <<>> /\ jobs = <<>>
    /\ srcCanvas = NULL /\ dstCanvas = NULL
    /\ pendingRef = 0 /\ promises = <<>>
    /\ screen = NULL

OnLayout(l) ==
    /\ selector.events < MaxEvents
    /\ selector' = [selector EXCEPT
                        !.layout = [width |-> R(l[1]), height |-> R(l[2])],
                        !.events = @ + 1]
    /\ UNCHANGED <<call, ret, engineVars, screen>>

OnPanResponderGrant(touch) ==
    /\ selector.events < MaxEvents
    /\ ~selector.touching
    /\ selector' = [selector EXCEPT
            !.activeCornerRef =
                closestCorner(getDisplayMetrics(selector.layout,
                                                selector.imageAspect),
                              selector.corners, touch, 1, NoKey, <<1, 0>>),
            !.touching = TRUE,
            !.grant = [touch |-> touch, corners |-> selector.corners,
                       layout |-> selector.layout],
            !.events = @ + 1]
    /\ UNCHANGED <<call, ret, engineVars, screen>>

\* onCornersChange is setCorners of the parent, which renders the selector
\* again with the new corners before the next event
OnPanResponderMove(touch) ==
    /\ selector.events < MaxEvents
    /\ LET key == selector.activeCornerRef
           m == getDisplayMetrics(selector.layout, selector.imageAspect)
           normalized == Pt(normalize(touch[1], m.ox, m.dw),
                            normalize(touch[2], m.oy, m.dh))
           emitted == [selector.corners EXCEPT ![key] = normalized]
       IN  IF key = NoKey
           THEN selector' = [selector EXCEPT !.events = @ + 1, !.moves = @ + 1]
           ELSE selector' = [selector EXCEPT
                    !.corners = emitted,
                    !.last = [prev |-> selector.corners, next |-> emitted,
                              key |-> key, grant |-> selector.grant],
                    !.events = @ + 1, !.moves = @ + 1, !.emits = @ + 1]
    /\ UNCHANGED <<call, ret, engineVars, screen>>

OnPanResponderRelease ==
    /\ selector.events < MaxEvents
    /\ selector.touching
    /\ selector' = [selector EXCEPT !.activeCornerRef = NoKey,
                                    !.touching = FALSE, !.events = @ + 1]
    /\ UNCHANGED <<call, ret, engineVars, screen>>

CornerNext ==
    \/ \E l \in Layouts : OnLayout(l)
    \/ \E t \in TouchPoints : OnPanResponderGrant(t)
    \/ \E t \in TouchPoints : OnPanResponderMove(t)
    \/ OnPanResponderRelease

CornerSpec == CornerInit /\ [][CornerNext]_vars

InUnit(v) == RLe(R(0), v) /\ RLe(v, R(1))

\* the last call of onCornersChange moved one corner, to a point of the unit
\* square, in a gesture that began within the hit radius of that corner
EmissionWellFormed ==
    selector.last # NULL =>
        LET e == selector.last
        IN  /\ e.key \in {"tl", "tr", "br", "bl"}
            /\ InUnit(e.next[e.key][1]) /\ InUnit(e.next[e.key][2])
            /\ \A k \in {"tl", "tr", "br", "bl"} \ {e.key} : e.next[k] = e.prev[k]
            /\ RLt(hypot2(getDisplayMetrics(e.grant.layout, selector.imageAspect),
                          e.grant.corners[e.key], e.grant.touch),
                   R(3600))

\* a move while no corner is active calls nothing and changes no corner
IdleMoveEmitsNothing ==
    (selector'.moves # selector.moves /\ selector.activeCornerRef = NoKey) =>
        /\ selector'.corners = selector.corners
        /\ selector'.emits = selector.emits
        /\ selector'.last = selector.last

\* C16: every corner set CornerSelector passes to onCornersChange has the
\* dragged corner inside [0,1] x [0,1] and the other three corners as they
\* were; a move while no corner is active (the touch began 60 units or more
\* from every corner, or the gesture was released) passes nothing.
C16_OnlyDraggedCornerMoves ==
    []EmissionWellFormed /\ [][IdleMoveEmitsNothing]_vars

\* A corner other than the first was dragged to a point outside the image,
\* which was clamped, and another move was ignored.
C16_Witness ==
    /\ selector # NULL /\ selector.last # NULL
    /\ selector.last.key = "br"
    /\ selector.last.next["br"] = Pt(R(0), R(1))
    /\ selector.moves > selector.emits

-----------------------------------------------------------------------------
(* ScanScreen: pickImage, doProcess, resetToStart, back to crop *)

MaxPicks == 2       \* pickImage is started at most MaxPicks times
MaxRuns == 2        \* doProcess is started at most MaxRuns times
Uris == {"A", "B", "corrupt"}
NoUri == "null"     \* imageUri before an image is picked
PickOutcomes == Uris \cup {"denied", "canceled", "threw"}
ScreenCorners == {DEFAULT_CORNERS, [DEFAULT_CORNERS EXCEPT !["tr"] = Pt(R(1), R(0))]}
EnhanceModes == {"bw", "gray", "color"}

\* what file.base64() of a picked uri decodes to
ImageOf(uri) == IF uri = "A" THEN ImageA ELSE IF uri = "B" THEN ImageB ELSE Corrupt

\* the payload's corners; the engine reads tl, tr, br, bl in this order
CornersSeq(c) == <<c["tl"], c["tr"], c["br"], c["bl"]>>

\* run is the doProcess call in progress (NULL when none): where it awaits
\* and the values its closure captured; picking counts the pickImage calls
\* that await the picker
ScreenInit ==
    /\ screen = [step |-> "pick", imageUri |-> NoUri, corners |-> DEFAULT_CORNERS,
                 enhanceMode |-> "bw", processing |-> FALSE, result |-> NULL,
                 picking |-> 0, picks |-> 0, run |-> NULL]
    /\ selector = NULL
    /\ call = [fn |-> "ScanScreen"]
    /\ ret = NotReturned
    /\ inbox = <<>>
    /\ outbox = <<[type |-> "ready"]>>
    /\ jobs = <<>>
    /\ srcCanvas = BlankCanvas
    /\ dstCanvas = BlankCanvas
    /\ pendingRef = 0
    /\ promises = <<>>

\* a screen on which no button can be pressed during processing or before
touchesNeverBlocked(s) == FALSE

\* {processing && <View style={styles.processingOverlay}>}: the overlay
\* fills the screen above the steps and takes every touch
touchesBlocked(s) == s.processing

\* onPress={() => pickImage(useCamera)} up to the first await
PickImagePress ==
    /\ screen.step = "pick" /\ ~touchesBlocked(screen)
    /\ screen.picks < MaxPicks
    /\ screen' = [screen EXCEPT !.picking = @ + 1, !.picks = @ + 1]
    /\ UNCHANGED <<call, ret, engineVars, selector>>

\* pickImage after the picker: no permission, canceled or thrown change
\* nothing; an asset opens the crop step
PickImageDone(outcome) ==
    /\ screen.picking > 0
    /\ screen' = IF outcome \in Uris
                 THEN [screen EXCEPT !.picking = @ - 1,
                                     !.imageUri = outcome,
                                     !.corners = DEFAULT_CORNERS,
                                     !.result = NULL,
                                     !.step = "crop"]
                 ELSE [screen EXCEPT !.picking = @ - 1]
    /\ UNCHANGED <<call, ret, engineVars, selector>>

\* onCornersChange={setCorners}
SetCorners(c) ==
    /\ screen.step = "crop" /\ ~touchesBlocked(screen)
    /\ screen.imageUri # NoUri
    /\ screen' = [screen EXCEPT !.corners = c]
    /\ UNCHANGED <<call, ret, engineVars, selector>>

SetEnhanceMode(m) ==
    /\ screen.step = "crop" /\ ~touchesBlocked(screen)
    /\ screen' = [screen EXCEPT !.enhanceMode = m]
    /\ UNCHANGED <<call, ret, engineVars, selector>>

\* doProcess up to await file.base64(); the button is disabled while
\* processing, and processorRef.current is set once ImageProcessor is mounted
DoProcessPress ==
    /\ screen.step = "crop" /\ ~touchesBlocked(screen) /\ ~screen.processing
    /\ Len(promises) < MaxRuns
    /\ IF screen.imageUri = NoUri THEN UNCHANGED screen
       ELSE screen' = [screen EXCEPT
                !.processing = TRUE,
                !.run = [pc |-> "base64", uri |-> screen.imageUri,
                         corners |-> screen.corners,
                         mode |-> screen.enhanceMode, promise |-> 0]]
    /\ UNCHANGED <<call, ret, engineVars, selector>>

\* file.base64() resolved: processorRef.current.process(...) is called
DoProcessCallsProcess ==
    /\ screen.run # NULL /\ screen.run.pc = "base64"
    /\ \E ready \in BOOLEAN :
          process([image |-> ImageOf(screen.run.uri),
                   corners |-> CornersSeq(screen.run.corners),
                   mode |-> screen.run.mode], ready)
    /\ screen' = [screen EXCEPT !.run.pc = "process",
                                !.run.promise = Len(promises) + 1]
    /\ UNCHANGED <<call, ret, outbox, jobs, srcCanvas, dstCanvas, selector>>

\* a doProcess whose failure path leaves processing set
doProcessFailedStillProcessing(s) == [s EXCEPT !.run = NULL]

\* catch and finally of doProcess
doProcessFailed(s) == [s EXCEPT !.processing = FALSE, !.run = NULL]

\* file.base64() rejected
DoProcessReadFails ==
    /\ screen.run # NULL /\ screen.run.pc = "base64"
    /\ screen' = doProcessFailed(screen)
    /\ UNCHANGED <<call, ret, engineVars, selector>>

\* the promise of process() resolved: setResult, setStep('preview') and the
\* finally clause
DoProcessResolved ==
    /\ screen.run # NULL /\ screen.run.pc = "process"
    /\ promises[screen.run.promise].state = "resolved"
    /\ LET v == promises[screen.run.promise].value
       IN  screen' = [screen EXCEPT
                !.result = [base64 |-> v.base64, width |-> v.width,
                            height |-> v.height],
                !.step = "preview",
                !.processing = FALSE,
                !.run = NULL]
    /\ UNCHANGED <<call, ret, engineVars, selector>>

\* the promise of process() rejected
DoProcessRejected ==
    /\ screen.run # NULL /\ screen.run.pc = "process"
    /\ promises[screen.run.promise].state = "rejected"
    /\ screen' = doProcessFailed(screen)
    /\ UNCHANGED <<call, ret, engineVars, selector>>

ResetToStart ==
    /\ screen.step \in {"crop", "preview"} /\ ~touchesBlocked(screen)
    /\ screen' = [screen EXCEPT !.step = "pick", !.imageUri = NoUri,
                                !.result = NULL, !.corners = DEFAULT_CORNERS]
    /\ UNCHANGED <<call, ret, engineVars, selector>>

\* onPress={() => setStep('crop')} of the preview step
BackToCrop ==
    /\ screen.step = "preview" /\ ~touchesBlocked(screen)
    /\ screen' = [screen EXCEPT !.step = "crop"]
    /\ UNCHANGED <<call, ret, engineVars, selector>>

ScreenStep ==
    \/ PickImagePress
    \/ \E outcome \in PickOutcomes : PickImageDone(outcome)
    \/ \E c \in ScreenCorners : SetCorners(c)
    \/ \E m \in EnhanceModes : SetEnhanceMode(m)
    \/ DoProcessPress
    \/ ResetToStart
    \/ BackToCrop

DoProcessStep ==
    \/ DoProcessCallsProcess
    \/ DoProcessReadFails
    \/ DoProcessResolved
    \/ DoProcessRejected

BridgeStep == OnMessageResult \/ OnMessageError \/ OnMessageIgnored

ScreenNext == ScreenStep \/ DoProcessStep \/ WebViewStep \/ BridgeStep

ScreenSpec == ScreenInit /\ [][ScreenNext]_vars

\* C17: in every reachable state of ScanScreen, step = 'preview' implies
\* that result is not null and step = 'crop' implies that imageUri is not
\* null.
C17_StepHasItsData ==
    /\ screen.step = "preview" => screen.result # NULL
    /\ screen.step = "crop" => screen.imageUri # NoUri

\* The crop step was entered again from a preview, after a second image was
\* picked and processed.
C17_Witness ==
    /\ screen # NULL
    /\ screen.step = "crop" /\ screen.result # NULL
    /\ screen.imageUri = "B" /\ screen.picks = 2
    /\ Len(promises) >= 1

-----------------------------------------------------------------------------
(* ScanScreen with the event loop, the WebView and the bridge making progress *)

\* awaited promises that are settled have their continuations run, the
\* WebView handles what it received and its replies are delivered
ScreenLiveSpec ==
    /\ ScreenSpec
    /\ WF_vars(DoProcessStep)
    /\ WF_vars(WebViewStep)
    /\ WF_vars(BridgeStep)

\* the doProcess in progress ends in this step otherwise than by the
\* resolution of the promise of process()
DoProcessEndsRejected ==
    /\ screen.run # NULL /\ screen'.run = NULL
    /\ ~(screen.run.pc = "process"
         /\ promises[screen.run.promise].state = "resolved")

RejectionKeepsStepAndResult ==
    DoProcessEndsRejected =>
        /\ screen'.step = screen.step
        /\ screen'.result = screen.result

\* C18: every doProcess that sets processing to true eventually sets it back
\* to false, whether the promise of process() resolves or rejects, given that
\* the WebView answers each process message; when it rejects, step and result
\* are left unchanged.
C18_ProcessingEnds ==
    /\ (screen.processing ~> ~screen.processing)
    /\ [][RejectionKeepsStepAndResult]_vars

\* A doProcess has ended by the rejection that the WebView's error reply
\* caused, and the screen is still on the crop step, not processing.
C18_Witness ==
    /\ screen # NULL
    /\ screen.run = NULL /\ ~screen.processing
    /\ screen.step = "crop"
    /\ \E k \in DOMAIN promises :
          /\ promises[k].state = "rejected"
          /\ promises[k].value.message # "WebView not ready"

====
